---- MODULE Spec2Model ----
(***************************************************************************)
(* A model of packages/lexical-markdown/src/convertToMarkdown.js: the      *)
(* single pass of $convertToMarkdownString over the (node, depth)          *)
(* sequence returned by $dfs().  Strings are sequences of one-character    *)
(* strings, so that the escaping and wrapping helpers are modelled by what *)
(* they do to each character.                                              *)
(***************************************************************************)
EXTENDS Integers, Sequences, FiniteSets

VARIABLES
    nodes,                        \* const nodes = $dfs()
    i,                            \* loop index (1-based; the source's i + 1)
    text,                         \* let text = ''
    shouldAppendFirstLineBreak,   \* let shouldAppendFirstLineBreak = false
    closingBracketStack,          \* Array<{depth, endText}>
    listStack,                    \* Array<{count, depth, tag}>
    quoteStack,                   \* Array<{depth}>
    codeStack,                    \* Array<{depth}>
    pc,                           \* "loop", "done" (returned) or "error" (threw)
    log,                          \* history: every append and pop, in order
    results                       \* the strings returned so far, one per invocation

vars == <<nodes, i, text, shouldAppendFirstLineBreak, closingBracketStack,
          listStack, quoteStack, codeStack, pc, log, results>>

-----------------------------------------------------------------------------
(* Bounds of the checked inputs.                                           *)

MaxLen == 3
MaxBody == 4
MaxListBody == 5
MaxUrlLen == 2
MaxTextBody == 2
MaxUrlBody == 1
MaxMalformed == 3
MaxDepth == 2
MaxCalls == 2

-----------------------------------------------------------------------------
(* Strings.                                                                *)

RECURSIVE Repeat(_, _)
Repeat(s, n) == IF n <= 0 THEN <<>> ELSE s \o Repeat(s, n - 1)

(* The grave accent, U+0060, of inline code and code fences.  The lexer of   *)
(* the TLA+ tools rejects that character inside a string, so the one-       *)
(* character string is written by its code point.                           *)
BQ == "U+0060"

Digits == <<"0", "1", "2", "3", "4", "5", "6", "7", "8", "9">>

RECURSIVE NumberToString(_)
NumberToString(n) ==
    IF n < 10 THEN <<Digits[n + 1]>>
    ELSE NumberToString(n \div 10) \o <<Digits[(n % 10) + 1]>>

-----------------------------------------------------------------------------
(* The helpers of the source.                                              *)

appendLineBreakAlways(t, isFirstLineBreak) == t \o <<"\n">>

appendLineBreak(t, isFirstLineBreak) ==
    IF Len(t) > 0 \/ isFirstLineBreak THEN t \o <<"\n">> ELSE t

(* str.replace(/c/g, by): every occurrence of the character c, left to     *)
(* right, gives way to the string by.                                      *)
RECURSIVE ReplaceAll(_, _, _)
ReplaceAll(str, c, by) ==
    IF str = <<>> THEN <<>>
    ELSE (IF Head(str) = c THEN by ELSE <<Head(str)>>) \o ReplaceAll(Tail(str), c, by)

(* str.replace(/c/, by): the first occurrence only.                        *)
RECURSIVE ReplaceFirst(_, _, _)
ReplaceFirst(str, c, by) ==
    IF str = <<>> THEN <<>>
    ELSE IF Head(str) = c THEN by \o Tail(str)
    ELSE <<Head(str)>> \o ReplaceFirst(Tail(str), c, by)

encodeURLFirstOnly(url) == ReplaceFirst(url, ")", <<"%", "2", "9">>)

encodeURL(url) == ReplaceAll(url, ")", <<"%", "2", "9">>)

encodeURLTitle(url) ==
    ReplaceAll(ReplaceAll(ReplaceAll(url, "\\", <<"\\", "\\">>),
                          "[", <<"\\", "[">>),
               "]", <<"\\", "]">>)

(* $dfs() lists a node's descendants right after it, each deeper than it. *)
(* The subtree of entry k ends before the first later entry that is not    *)
(* deeper than k; its children are the entries of the subtree one level    *)
(* below it.                                                               *)
SubtreeEnd(ns, k) ==
    LET later == {j \in (k + 1)..Len(ns) : ns[j].depth <= ns[k].depth}
    IN  IF later = {} THEN Len(ns)
        ELSE (CHOOSE j \in later : \A m \in later : j <= m) - 1

Children(ns, k) ==
    {j \in (k + 1)..SubtreeEnd(ns, k) : ns[j].depth = ns[k].depth + 1}

hasSingleListChildAny(ns, k) ==
    \E j \in Children(ns, k) : ns[j].node.kind = "List"

hasSingleListChild(ns, k) ==
    /\ Cardinality(Children(ns, k)) = 1
    /\ ns[k + 1].node.kind = "List"

-----------------------------------------------------------------------------
(* Inputs: the sequences $dfs() can return.  The root has depth 0 and each *)
(* later entry is at least at depth 1 and at most one level deeper than    *)
(* the entry before it.                                                    *)

Node(kind, tag, content, format, url) ==
    [kind |-> kind, tag |-> tag, content |-> content, format |-> format, url |-> url]

HeadingNode(tag)           == Node("Heading", tag, <<>>, {}, <<>>)
ParagraphNode              == Node("Paragraph", "", <<>>, {}, <<>>)
ListNode(tag)              == Node("List", tag, <<>>, {}, <<>>)
ListItemNode               == Node("ListItem", "", <<>>, {}, <<>>)
QuoteNode                  == Node("Quote", "", <<>>, {}, <<>>)
TextNode(content, format)  == Node("Text", "", content, format, <<>>)
LineBreakNode              == Node("LineBreak", "", <<>>, {}, <<>>)
CodeNode                   == Node("Code", "", <<>>, {}, <<>>)
LinkNode(url)              == Node("Link", "", <<>>, {}, url)
OtherNode                  == Node("Other", "", <<>>, {}, <<>>)

Formats == SUBSET {"code", "bold", "italic", "strikethrough"}

RECURSIVE Strings(_, _)
Strings(chars, n) ==
    IF n = 0 THEN {<<>>}
    ELSE LET shorter == Strings(chars, n - 1)
         IN  shorter \cup {Append(s, c) : s \in shorter, c \in chars}

(* The depth sequences of the pre-order listings of the trees of n nodes.  *)
RECURSIVE Shapes(_)
Shapes(n) ==
    IF n = 1 THEN {<<0>>}
    ELSE UNION {{Append(s, d) : d \in 1..(s[Len(s)] + 1)} : s \in Shapes(n - 1)}

ValidPreOrder(ns) ==
    /\ Len(ns) >= 1
    /\ ns[1].depth = 0
    /\ \A k \in 2..Len(ns) : ns[k].depth \in 1..(ns[k - 1].depth + 1)

PlainText == TextNode(<<"a">>, {})

AllKinds ==
    {HeadingNode("h1"), ParagraphNode, ListNode("ul"), ListItemNode, QuoteNode,
     PlainText, LineBreakNode, CodeNode, LinkNode(<<"u">>), OtherNode}

(* A family of documents: the root node, which $dfs() lists first and      *)
(* which is of none of the recognized kinds, the kinds of the nodes below  *)
(* it and their largest number.                                            *)
Family(alphabet, body) ==
    [alphabet |-> alphabet, body |-> body, valid |-> TRUE]

(* Every kind of node in every position below the root.                    *)
MixedInputs == Family(AllKinds, MaxLen)

(* Deeper documents under a root node, over the kinds one feature uses.    *)
LinkInputs  == Family({LinkNode(<<"u">>), PlainText, ParagraphNode}, MaxBody)
QuoteInputs == Family({QuoteNode, PlainText, ParagraphNode}, MaxBody)
CodeInputs  == Family({CodeNode, PlainText, LineBreakNode}, MaxBody)
ListInputs  == Family({ListNode("ol"), ListNode("ul"), ListItemNode}, MaxListBody)
HeadingInputs ==
    Family({HeadingNode("h2"), HeadingNode("h3"), ListNode("dl"),
                         ListItemNode}, MaxBody)

(* Text runs in every combination of formats, outside and inside a link.   *)
FormatInputs ==
    Family({LinkNode(<<"u">>)} \cup {TextNode(<<"[", "a">>, f) : f \in Formats},
           MaxTextBody)

(* Unformatted text holding each of the escaped characters, around and    *)
(* inside links nested to any depth.                                       *)
EscapeInputs ==
    Family({LinkNode(<<"u">>), TextNode(<<"\\", "[", "]", "a">>, {})}, MaxBody)

(* Links to every short URL over a letter, the parenthesis and the percent *)
(* sign.                                                                   *)
Urls == Strings({"a", ")", "%"}, MaxUrlLen)
UrlInputs == Family({LinkNode(u) : u \in Urls} \cup {PlainText}, MaxUrlBody)

(* Sequences that need not be the pre-order listing of a tree: any depth   *)
(* at any position after the root, over the kinds that push a frame.       *)
Framed == {LinkNode(<<"u">>), ListNode("ol"), QuoteNode, CodeNode}
MalformedInputs == [alphabet |-> Framed, body |-> MaxMalformed, valid |-> FALSE]

Families ==
    {MixedInputs, LinkInputs, QuoteInputs, CodeInputs, ListInputs, HeadingInputs,
     FormatInputs, EscapeInputs, UrlInputs, MalformedInputs}

ShapesOf(F, n) ==
    IF F.valid THEN Shapes(n) ELSE {s \in [1..n -> 0..MaxDepth] : s[1] = 0}

Document(n, shape, labels) ==
    [k \in 1..n |->
        [depth |-> shape[k], node |-> IF k = 1 THEN OtherNode ELSE labels[k]]]

Init ==
    /\ \E F \in Families : \E n \in 0..F.body :
         \E shape \in ShapesOf(F, n + 1), labels \in [2..(n + 1) -> F.alphabet] :
              nodes = Document(n + 1, shape, labels)
    /\ i = 1
    /\ text = <<>>
    /\ shouldAppendFirstLineBreak = FALSE
    /\ closingBracketStack = <<>>
    /\ listStack = <<>>
    /\ quoteStack = <<>>
    /\ codeStack = <<>>
    /\ pc = "loop"
    /\ log = <<>>
    /\ results = <<>>

-----------------------------------------------------------------------------
(* The state of one pass, threaded through the loop body.  Every change of *)
(* the output buffer and every push and pop is appended to the history     *)
(* `log` as [at, what, frame, str]: the position being visited, the kind   *)
(* of step, the position whose frame it concerns (0 if none) and the       *)
(* characters the step appended to `text`.                                 *)

Cur == [text  |-> text,
        first |-> shouldAppendFirstLineBreak,
        link  |-> closingBracketStack,
        list  |-> listStack,
        quote |-> quoteStack,
        code  |-> codeStack,
        log   |-> log]

Logged(S, what, frame, t2) ==
    [S EXCEPT !.text = t2,
              !.log = Append(@, [at |-> i, what |-> what, frame |-> frame,
                                 str |-> SubSeq(t2, Len(S.text) + 1, Len(t2))])]

Top(stack) == stack[Len(stack)]
Pop(stack) == SubSeq(stack, 1, Len(stack) - 1)

LineBreak(S) == Logged(S, "lineBreak", 0, appendLineBreak(S.text, S.first))

-----------------------------------------------------------------------------
(* Per-kind emission: the if / else-if chain of the loop body.             *)

EmitHeadingEveryLevel(S) ==
    LET tag == nodes[i].node.tag
        S1  == LineBreak(S)
    IN  IF tag = "h1" THEN Logged(S1, "heading", 0, S1.text \o <<"#", " ">>)
        ELSE IF tag = "h2" THEN Logged(S1, "heading", 0, S1.text \o <<"#", "#", " ">>)
        ELSE Logged(S1, "heading", 0, S1.text \o <<"#", "#", "#", " ">>)

EmitHeading(S) ==
    LET tag == nodes[i].node.tag
    IN  IF tag = "h1"
          THEN LET S1 == LineBreak(S)
               IN  Logged(S1, "heading", 0, S1.text \o <<"#", " ">>)
        ELSE IF tag = "h2"
          THEN LET S1 == LineBreak(S)
               IN  Logged(S1, "heading", 0, S1.text \o <<"#", "#", " ">>)
        ELSE S

NewListFrameInherited(S) ==
    [count |-> IF Len(S.list) > 0 THEN S.list[Len(S.list)].count ELSE 0,
     depth |-> nodes[i].depth, tag |-> nodes[i].node.tag, at |-> i]

NewListFrame(S) ==
    [count |-> 0, depth |-> nodes[i].depth, tag |-> nodes[i].node.tag, at |-> i]

EmitList(S) ==
    LET S1 == [S EXCEPT !.list = Append(@, NewListFrame(S))]
    IN  Logged(S1, "listPush", i, S1.text)

IndentOff(n) == Repeat(<<" ">>, n * 4)

Indent(n) == Repeat(<<" ">>, (n - 1) * 4)

(* Reading list.tag of an undefined `list` throws a TypeError.             *)
ListItemThrows(S) ==
    /\ ~hasSingleListChild(nodes, i)
    /\ Len(S.list) = 0

EmitListItemCountsEveryTag(S) ==
    IF hasSingleListChild(nodes, i) THEN S
    ELSE LET S1     == LineBreak(S)
             n      == Len(S1.list)
             list   == Top(S1.list)
             indent == Indent(n)
             S2     == [S1 EXCEPT !.list[n].count = @ + 1]
         IN  IF n = 0 THEN S1
             ELSE IF list.tag = "ol"
               THEN Logged(S2, "marker", list.at,
                           S2.text \o indent
                              \o NumberToString(S2.list[n].count)
                              \o <<".", " ">>)
             ELSE IF list.tag = "ul"
               THEN Logged(S2, "marker", list.at, S2.text \o indent \o <<"-", " ">>)
             ELSE S1

EmitListItem(S) ==
    IF hasSingleListChild(nodes, i) THEN S
    ELSE LET S1     == LineBreak(S)
             n      == Len(S1.list)
             list   == Top(S1.list)
             indent == Indent(n)
         IN  IF n = 0 THEN S1
             ELSE IF list.tag = "ol"
               THEN LET S2 == [S1 EXCEPT !.list[n].count = @ + 1]
                    IN  Logged(S2, "marker", list.at,
                               S2.text \o indent
                                  \o NumberToString(S2.list[n].count)
                                  \o <<".", " ">>)
             ELSE IF list.tag = "ul"
               THEN Logged(S1, "marker", list.at, S1.text \o indent \o <<"-", " ">>)
             ELSE S1

FormatTextReversed(content, format, inLink) ==
    LET t0 == IF inLink THEN encodeURLTitle(content) ELSE content
        t1 == IF "strikethrough" \in format THEN <<"~", "~">> \o t0 \o <<"~", "~">> ELSE t0
        t2 == IF "italic" \in format THEN <<"*">> \o t1 \o <<"*">> ELSE t1
        t3 == IF "bold" \in format THEN <<"*", "*">> \o t2 \o <<"*", "*">> ELSE t2
        t4 == IF "code" \in format THEN <<BQ>> \o t3 \o <<BQ>> ELSE t3
    IN  t4

FormatText(content, format, inLink) ==
    LET t0 == IF inLink THEN encodeURLTitle(content) ELSE content
        t1 == IF "code" \in format THEN <<BQ>> \o t0 \o <<BQ>> ELSE t0
        t2 == IF "bold" \in format THEN <<"*", "*">> \o t1 \o <<"*", "*">> ELSE t1
        t3 == IF "italic" \in format THEN <<"*">> \o t2 \o <<"*">> ELSE t2
        t4 == IF "strikethrough" \in format THEN <<"~", "~">> \o t3 \o <<"~", "~">> ELSE t3
    IN  t4

EmitText(S) ==
    Logged(S, "text", 0,
           S.text \o FormatText(nodes[i].node.content, nodes[i].node.format,
                                Len(S.link) > 0))

EmitParagraphFlagFirst(S) == LineBreak([S EXCEPT !.first = TRUE])

EmitParagraph(S) == [LineBreak(S) EXCEPT !.first = TRUE]

EmitQuote(S) ==
    LET S1 == LineBreak(S)
        S2 == Logged(S1, "quoteOpen", i, S1.text \o <<">", " ">>)
    IN  [S2 EXCEPT !.quote = Append(@, [depth |-> nodes[i].depth, at |-> i])]

EmitLineBreak(S) == LineBreak(S)

EmitCode(S) ==
    LET S1 == LineBreak(S)
        S2 == Logged(S1, "fenceOpen", i, S1.text \o <<BQ, BQ, BQ, "\n">>)
    IN  [S2 EXCEPT !.code = Append(@, [depth |-> nodes[i].depth, at |-> i])]

LinkEndText(url) == <<"]", "(">> \o encodeURL(url) \o <<")">>

EmitLink(S) ==
    LET S1 == Logged(S, "linkOpen", i, S.text \o <<"[">>)
        endText == LinkEndText(nodes[i].node.url)
    IN  [S1 EXCEPT !.link = Append(@, [depth |-> nodes[i].depth,
                                       endText |-> endText, at |-> i])]

-----------------------------------------------------------------------------
(* The close-out pass that ends every iteration.                           *)

(* nodes[i + 1] is undefined (== null) past the last entry.                *)
nextNodeIsNull == i + 1 > Len(nodes)
nextNode == nodes[i + 1]

EndedStrictlyAbove(frame) == nextNodeIsNull \/ nextNode.depth < frame.depth

Ended(frame) == nextNodeIsNull \/ nextNode.depth <= frame.depth

CloseLink(S) ==
    IF Len(S.link) > 0 /\ Ended(Top(S.link))
      THEN LET S1 == [S EXCEPT !.link = Pop(@)]
           IN  Logged(S1, "linkClose", Top(S.link).at, S1.text \o Top(S.link).endText)
      ELSE S

CloseCodeOnce(S) ==
    IF Len(S.code) > 0 /\ Ended(Top(S.code))
      THEN LET S1 == Logged(S, "fenceClose", Top(S.code).at,
                            S.text \o <<"\n", BQ, BQ, BQ>>)
           IN  [S1 EXCEPT !.code = Pop(@)]
      ELSE S

RECURSIVE CloseCode(_)
CloseCode(S) ==
    IF Len(S.code) > 0 /\ Ended(Top(S.code))
      THEN LET S1 == Logged(S, "fenceClose", Top(S.code).at,
                            S.text \o <<"\n", BQ, BQ, BQ>>)
           IN  CloseCode([S1 EXCEPT !.code = Pop(@)])
      ELSE S

CloseListOnce(S) ==
    IF Len(S.list) > 0 /\ Ended(Top(S.list))
      THEN LET S1 == Logged(S, "listPop", Top(S.list).at, S.text)
           IN  [S1 EXCEPT !.list = Pop(@)]
      ELSE S

RECURSIVE CloseList(_)
CloseList(S) ==
    IF Len(S.list) > 0 /\ Ended(Top(S.list))
      THEN LET S1 == Logged(S, "listPop", Top(S.list).at, S.text)
           IN  CloseList([S1 EXCEPT !.list = Pop(@)])
      ELSE S

RECURSIVE CloseQuote(_)
CloseQuote(S) ==
    IF Len(S.quote) > 0 /\ Ended(Top(S.quote))
      THEN LET S1 == Logged(S, "quoteClose", Top(S.quote).at, S.text \o <<"\n">>)
           IN  CloseQuote([S1 EXCEPT !.quote = Pop(@)])
      ELSE S

CloseOutQuoteFirst(S) == CloseList(CloseCode(CloseLink(CloseQuote(S))))

CloseOut(S) == CloseQuote(CloseList(CloseCode(CloseLink(S))))

-----------------------------------------------------------------------------
(* Actions: one per branch of the loop body, each a whole iteration        *)
(* (emission, then close-out, then i++), and the return.                   *)

Store(S) ==
    /\ text' = S.text
    /\ shouldAppendFirstLineBreak' = S.first
    /\ closingBracketStack' = S.link
    /\ listStack' = S.list
    /\ quoteStack' = S.quote
    /\ codeStack' = S.code
    /\ log' = S.log
    /\ nodes' = nodes
    /\ results' = results

Advance(S) ==
    /\ Store(CloseOut(S))
    /\ i' = i + 1
    /\ pc' = "loop"

Visiting(kind) ==
    /\ pc = "loop"
    /\ i <= Len(nodes)
    /\ nodes[i].node.kind = kind

VisitHeading == Visiting("Heading") /\ Advance(EmitHeading(Cur))

VisitList == Visiting("List") /\ Advance(EmitList(Cur))

VisitListItem ==
    /\ Visiting("ListItem")
    /\ IF ListItemThrows(Cur)
         THEN /\ Store(EmitListItem(Cur))
              /\ i' = i
              /\ pc' = "error"
         ELSE Advance(EmitListItem(Cur))

VisitText == Visiting("Text") /\ Advance(EmitText(Cur))

VisitParagraph == Visiting("Paragraph") /\ Advance(EmitParagraph(Cur))

VisitQuote == Visiting("Quote") /\ Advance(EmitQuote(Cur))

VisitLineBreak == Visiting("LineBreak") /\ Advance(EmitLineBreak(Cur))

VisitCode == Visiting("Code") /\ Advance(EmitCode(Cur))

VisitLink == Visiting("Link") /\ Advance(EmitLink(Cur))

VisitOther == Visiting("Other") /\ Advance(Cur)

Return ==
    /\ pc = "loop"
    /\ i > Len(nodes)
    /\ pc' = "done"
    /\ results' = Append(results, text)
    /\ UNCHANGED <<nodes, i, text, shouldAppendFirstLineBreak,
                   closingBracketStack, listStack, quoteStack, codeStack, log>>

Next ==
    \/ VisitHeading
    \/ VisitList
    \/ VisitListItem
    \/ VisitText
    \/ VisitParagraph
    \/ VisitQuote
    \/ VisitLineBreak
    \/ VisitCode
    \/ VisitLink
    \/ VisitOther
    \/ Return

Spec == Init /\ [][Next]_vars

-----------------------------------------------------------------------------
(* A further invocation on the same editor state.  Every variable of the   *)
(* function is a let or const of its body, so each invocation starts from  *)
(* the initial values of the declarations; the function has no await or    *)
(* yield, so an invocation runs to its end before another can start.       *)

LocalsKeepFlag ==
    [text  |-> <<>>,
     first |-> shouldAppendFirstLineBreak,
     link  |-> <<>>,
     list  |-> <<>>,
     quote |-> <<>>,
     code  |-> <<>>,
     log   |-> <<>>]

Locals ==
    [text  |-> <<>>,
     first |-> FALSE,
     link  |-> <<>>,
     list  |-> <<>>,
     quote |-> <<>>,
     code  |-> <<>>,
     log   |-> <<>>]

Call ==
    /\ pc = "done"
    /\ Len(results) < MaxCalls
    /\ Store(Locals)
    /\ i' = 1
    /\ pc' = "loop"

NextTwice == Next \/ Call

SpecTwice == Init /\ [][NextTwice]_vars

-----------------------------------------------------------------------------
(* Vocabulary of the properties.                                           *)

Returned == pc = "done"

(* Iteration k of the loop (emission and close-out) has completed.         *)
Visited(k) == k < i

IsKind(k, kind) == nodes[k].node.kind = kind

LogIndexes(what) == {m \in 1..Len(log) : log[m].what = what}

FrameKinds == {"Link", "List", "Quote", "Code"}

StackOf(kind) ==
    CASE kind = "Link"  -> closingBracketStack
      [] kind = "List"  -> listStack
      [] kind = "Quote" -> quoteStack
      [] kind = "Code"  -> codeStack

PopOf(kind) ==
    CASE kind = "Link"  -> "linkClose"
      [] kind = "List"  -> "listPop"
      [] kind = "Quote" -> "quoteClose"
      [] kind = "Code"  -> "fenceClose"

(* The pops of the frame pushed at position k, and its places on its stack. *)
PopsOf(k) == {m \in LogIndexes(PopOf(nodes[k].node.kind)) : log[m].frame = k}

PlacesOf(k) ==
    LET stack == StackOf(nodes[k].node.kind)
    IN  {m \in 1..Len(stack) : stack[m].at = k}

(* The first position j >= k whose following entry is not deeper than k or *)
(* does not exist.                                                         *)
ClosePosition(k) == SubtreeEnd(nodes, k)

-----------------------------------------------------------------------------
(* C1: in a valid pre-order sequence, every frame pushed on any of the     *)
(* four stacks is popped exactly once, in the close-out pass of the first  *)
(* position at or after it whose following entry is not deeper than the    *)
(* frame or does not exist: not earlier, not later, and it is not left on  *)
(* its stack when the pass returns.                                        *)
C1_EveryFramePoppedOnceAtItsClosePosition ==
    ValidPreOrder(nodes) =>
        \A k \in 1..Len(nodes) :
            (Visited(k) /\ nodes[k].node.kind \in FrameKinds) =>
                IF Visited(ClosePosition(k))
                  THEN /\ Cardinality(PopsOf(k)) = 1
                       /\ \A m \in PopsOf(k) : log[m].at = ClosePosition(k)
                       /\ PlacesOf(k) = {}
                  ELSE /\ PopsOf(k) = {}
                       /\ Cardinality(PlacesOf(k)) = 1

(* C2: every Link entry of a valid sequence gets exactly one opening "["   *)
(* and exactly one closing "](url)", and the closing text is appended      *)
(* after everything its descendants emit and before anything emitted for   *)
(* the first later entry that is not deeper than the Link.                 *)
Emissions ==
    {"lineBreak", "heading", "marker", "text", "quoteOpen", "fenceOpen", "linkOpen"}

C2_LinkOpenedAndClosedOnceAroundItsSubtree ==
    ValidPreOrder(nodes) =>
        \A k \in 1..Len(nodes) :
            (Visited(k) /\ IsKind(k, "Link")) =>
                /\ Cardinality({m \in LogIndexes("linkOpen") : log[m].frame = k}) = 1
                /\ IF Visited(ClosePosition(k))
                     THEN /\ Cardinality(PopsOf(k)) = 1
                          /\ \A m \in PopsOf(k) :
                               /\ log[m].str = LinkEndText(nodes[k].node.url)
                               /\ \A e \in 1..Len(log) :
                                    /\ (log[e].at <= ClosePosition(k)
                                          /\ log[e].what \in Emissions) => e < m
                                    /\ log[e].at > ClosePosition(k) => m < e
                     ELSE PopsOf(k) = {}

(* C3: when the pass returns, as many closing fences have been appended as *)
(* Code entries were visited, whatever the input sequence, and no prefix   *)
(* of the output holds more closing fences than opening fences.            *)
CountUpTo(what, p) == Cardinality({m \in LogIndexes(what) : m <= p})

C3_CodeFencesBalanced ==
    /\ \A m \in LogIndexes("fenceClose") : log[m].str = <<"\n", BQ, BQ, BQ>>
    /\ \A m \in LogIndexes("fenceOpen") : log[m].str = <<BQ, BQ, BQ, "\n">>
    /\ \A p \in 0..Len(log) : CountUpTo("fenceClose", p) <= CountUpTo("fenceOpen", p)
    /\ Cardinality(LogIndexes("fenceOpen"))
          = Cardinality({k \in 1..Len(nodes) : Visited(k) /\ IsKind(k, "Code")})
    /\ Returned =>
          Cardinality(LogIndexes("fenceClose"))
             = Cardinality({k \in 1..Len(nodes) : IsKind(k, "Code")})

(* A pass has returned from a document whose last entry is a Code block    *)
(* nested in another Code block: an empty block, last in the sequence, and *)
(* two fences closing in one close-out pass.                               *)
C3_Witness ==
    /\ Returned
    /\ ValidPreOrder(nodes)
    /\ IsKind(Len(nodes), "Code")
    /\ \E k \in 1..(Len(nodes) - 1) :
          IsKind(k, "Code") /\ ClosePosition(k) = Len(nodes)
    /\ Cardinality(LogIndexes("fenceClose")) >= 2

(* C4: over every valid pre-order sequence of the ten kinds, with any      *)
(* attribute values, a ListItem outside every List and a List whose tag is *)
(* neither 'ul' nor 'ol' included, the pass never enters an error state.   *)
C4_PassNeverThrows == ValidPreOrder(nodes) => pc # "error"

(* The output before log entry m, and the run of line feeds that starts at *)
(* a place of the output.                                                  *)
RECURSIVE LenBefore(_)
LenBefore(m) == IF m <= 1 THEN 0 ELSE LenBefore(m - 1) + Len(log[m - 1].str)

RECURSIVE NewlineRun(_)
NewlineRun(p) ==
    IF p <= Len(text) /\ text[p] = "\n" THEN 1 + NewlineRun(p + 1) ELSE 0

(* C5: whenever Quote frames close and content is emitted after the close, *)
(* exactly two line feeds lie between the quoted block and that content,   *)
(* whatever the kind of the following entry and however many nested Quote  *)
(* frames close at the position.                                           *)
C5_OneBlankLineAfterQuote ==
    ValidPreOrder(nodes) =>
        \A m \in LogIndexes("quoteClose") :
            (m = 1 \/ log[m - 1].what # "quoteClose" \/ log[m - 1].at # log[m].at) =>
                LET start == LenBefore(m) + 1
                    run   == NewlineRun(start)
                IN  start + run <= Len(text) => run = 2

(* C6: the k-th marker emitted while an ordered List frame is the top of   *)
(* the list stack is "k. ", whatever other List frames were opened before, *)
(* around or in between.                                                   *)
RECURSIVE StripIndent(_)
StripIndent(str) ==
    IF str # <<>> /\ Head(str) = " " THEN StripIndent(Tail(str)) ELSE str

MarkersOf(f) == {m \in LogIndexes("marker") : log[m].frame = f}

C6_OrderedMarkersCountFromOne ==
    \A m \in LogIndexes("marker") :
        LET f == log[m].frame
            k == Cardinality({e \in MarkersOf(f) : e <= m})
        IN  nodes[f].node.tag = "ol" =>
                StripIndent(log[m].str) = NumberToString(k) \o <<".", " ">>

(* An ordered list has emitted a marker, an ordered list opened after it   *)
(* has emitted its own "1. " and has closed, and the first list has then   *)
(* emitted "2. ".                                                          *)
C6_Witness ==
    \E f, g \in 1..Len(nodes) :
        /\ f # g
        /\ nodes[f].node.tag = "ol" /\ nodes[g].node.tag = "ol"
        /\ \E a, b \in MarkersOf(f), c \in MarkersOf(g) :
              /\ a < c /\ c < b
              /\ StripIndent(log[b].str) = <<"2", ".", " ">>
              /\ StripIndent(log[c].str) = <<"1", ".", " ">>

(* C7: every list-item marker is preceded on its line by exactly           *)
(* 4 x (n - 1) spaces, n being the number of List frames open when the     *)
(* ListItem is visited.                                                    *)
OpenLists(m) ==
    Cardinality({e \in LogIndexes("listPush") : e < m})
        - Cardinality({e \in LogIndexes("listPop") : e < m})

C7_MarkerIndentIsFourPerLevel ==
    \A m \in LogIndexes("marker") :
        LET str    == log[m].str
            spaces == Len(str) - Len(StripIndent(str))
        IN  /\ LenBefore(m) > 0 => text[LenBefore(m)] = "\n"
            /\ spaces = 4 * (OpenLists(m) - 1)
            /\ StripIndent(str) # <<>>

(* An item of a top-level ordered list has no indent, an item of the       *)
(* unordered list nested in it has 4 spaces, and an item that follows the  *)
(* nested list in the outer list has no indent again.                      *)
C7_Witness ==
    \E a, b, c \in LogIndexes("marker") :
        /\ a < b /\ b < c
        /\ OpenLists(a) = 1 /\ log[a].str = <<"1", ".", " ">>
        /\ OpenLists(b) = 2 /\ log[b].str = <<" ", " ", " ", " ", "-", " ">>
        /\ OpenLists(c) = 1 /\ log[c].str = <<"2", ".", " ">>

(* The entries that ensure a line break precedes what they emit.           *)
EnsuresLineBreak(k) ==
    \/ nodes[k].node.kind \in {"Paragraph", "Quote", "LineBreak", "Code"}
    \/ IsKind(k, "Heading") /\ nodes[k].node.tag \in {"h1", "h2"}
    \/ IsKind(k, "ListItem") /\ ~hasSingleListChild(nodes, k)

(* Entry k has been visited, to the end of its iteration or to a throw.    *)
Started(k) == Visited(k) \/ (pc = "error" /\ k = i)

LeadingLineFeed == text # <<>> /\ text[1] = "\n"

BlockMarkers == {"heading", "marker", "quoteOpen", "fenceOpen"}

BlockMarkersFollowLineFeed ==
    \A m \in 1..Len(log) :
        (log[m].what \in BlockMarkers /\ LenBefore(m) > 0) =>
            text[LenBefore(m)] = "\n"

SingleHeadingYieldsMarker ==
    (Returned /\ Len(nodes) = 2 /\ nodes[2].node = HeadingNode("h1")) =>
        text = <<"#", " ">>

(* C8, as claimed: the output never starts with a line feed, a lone h1     *)
(* Heading yields "# ", and every block marker after the start of the      *)
(* output follows a line feed.                                             *)
C8_NoLeadingLineFeed ==
    /\ ~LeadingLineFeed
    /\ SingleHeadingYieldsMarker
    /\ BlockMarkersFollowLineFeed

(* C8, amended: the output starts with a line feed exactly when an entry   *)
(* that ensures a line break is visited while the output is still empty    *)
(* and after a Paragraph entry; a lone h1 Heading yields "# ", and every   *)
(* block marker after the start of the output follows a line feed.         *)
C8_LeadingLineFeedOnlyAfterParagraph ==
    /\ LeadingLineFeed <=>
          \E q \in 1..Len(nodes) :
              /\ Started(q)
              /\ EnsuresLineBreak(q)
              /\ \E p \in 1..(q - 1) : IsKind(p, "Paragraph")
              /\ \A e \in 1..Len(log) : log[e].at < q => log[e].str = <<>>
    /\ SingleHeadingYieldsMarker
    /\ BlockMarkersFollowLineFeed

(* A pass has returned an output that starts with a line feed followed by  *)
(* a block marker: an empty Paragraph came first.                          *)
C8_Witness ==
    /\ Returned
    /\ LeadingLineFeed
    /\ \E m \in 1..Len(log) : log[m].what \in BlockMarkers /\ LenBefore(m) = 1

(* C9: the text appended for a Text entry is its content, escaped or not,  *)
(* wrapped by the grave accent if code, then "**" if bold, then "*" if     *)
(* italic, then "~~" if strikethrough, each marker once on either side;    *)
(* with no format, and outside a link, it is the content unchanged.        *)
Wrapped(c, mark) ==
    /\ Len(c) >= 2 * Len(mark)
    /\ SubSeq(c, 1, Len(mark)) = mark
    /\ SubSeq(c, Len(c) - Len(mark) + 1, Len(c)) = mark

Peel(c, mark, on) ==
    IF on /\ Len(c) >= 2 * Len(mark)
      THEN SubSeq(c, Len(mark) + 1, Len(c) - Len(mark))
      ELSE c

C9_FormatsWrapInFixedOrder ==
    \A m \in LogIndexes("text") :
        LET node == nodes[log[m].at].node
            st   == "strikethrough" \in node.format
            it   == "italic" \in node.format
            bo   == "bold" \in node.format
            co   == "code" \in node.format
            c4   == log[m].str
            c3   == Peel(c4, <<"~", "~">>, st)
            c2   == Peel(c3, <<"*">>, it)
            c1   == Peel(c2, <<"*", "*">>, bo)
            c0   == Peel(c1, <<BQ>>, co)
        IN  /\ st => Wrapped(c4, <<"~", "~">>)
            /\ it => Wrapped(c3, <<"*">>)
            /\ bo => Wrapped(c2, <<"*", "*">>)
            /\ co => Wrapped(c1, <<BQ>>)
            /\ c0 \in {node.content, encodeURLTitle(node.content)}
            /\ ~(\E k \in 1..log[m].at : IsKind(k, "Link")) => c0 = node.content

(* A Text entry with all four formats has been appended inside a link.     *)
C9_Witness ==
    \E m \in LogIndexes("text") :
        /\ nodes[log[m].at].node.format = {"code", "bold", "italic", "strikethrough"}
        /\ log[m].str = <<"~", "~", "*", "*", "*", BQ, "\\", "[", "a",
                          BQ, "*", "*", "*", "~", "~">>

(* C10: the closing text of a Link is "](" + u + ")", u being the URL with *)
(* each ")" replaced by "%29" and every other character kept in place; it  *)
(* is computed when the Link is visited and appended when its frame pops.  *)
ParensBefore(u, p) == Cardinality({q \in 1..(p - 1) : u[q] = ")"})

IsClosingTextOf(c, u) ==
    /\ Len(c) = Len(u) + 2 * ParensBefore(u, Len(u) + 1) + 3
    /\ c[1] = "]" /\ c[2] = "(" /\ c[Len(c)] = ")"
    /\ \A p \in 1..Len(u) :
          LET at == 2 + p + 2 * ParensBefore(u, p)
          IN  IF u[p] = ")"
                THEN c[at] = "%" /\ c[at + 1] = "2" /\ c[at + 2] = "9"
                ELSE c[at] = u[p]

C10_ClosingTextEncodesEveryParenthesis ==
    /\ \A f \in 1..Len(closingBracketStack) :
          IsClosingTextOf(closingBracketStack[f].endText,
                          nodes[closingBracketStack[f].at].node.url)
    /\ \A m \in LogIndexes("linkClose") :
          IsClosingTextOf(log[m].str, nodes[log[m].frame].node.url)

(* The frame of a Link whose URL is two closing parentheses has popped.    *)
C10_Witness ==
    \E m \in LogIndexes("linkClose") :
        /\ nodes[log[m].frame].node.url = <<")", ")">>
        /\ log[m].str = <<"]", "(", "%", "2", "9", "%", "2", "9", ")">>

-----------------------------------------------------------------------------
(* C11: invocations on the same input return the same string, and every    *)
(* invocation starts its loop with an empty buffer, a false flag and four  *)
(* empty stacks, whatever the invocation before it left behind.            *)

StartsFresh == (pc = "loop" /\ i = 1) => Cur = Locals

C11_InvocationsOnSameInputAgree ==
    /\ \A a, b \in 1..Len(results) : results[a] = results[b]
    /\ StartsFresh

(* A second invocation has returned on a document whose first invocation   *)
(* set the flag and left a Link frame on its stack.                        *)
C11_Witness ==
    /\ Len(results) = 2
    /\ pc = "done"
    /\ shouldAppendFirstLineBreak
    /\ closingBracketStack # <<>>
    /\ results[2] # <<>>

-----------------------------------------------------------------------------
(* C12: in a valid pre-order sequence a Text entry's content is appended   *)
(* with a backslash before each backslash and square bracket if the entry  *)
(* lies in the subtree of a Link entry, and unchanged if it does not.      *)

InLinkSubtree(k) ==
    \E j \in 1..(k - 1) :
        /\ IsKind(j, "Link")
        /\ nodes[j].depth < nodes[k].depth
        /\ \A q \in (j + 1)..(k - 1) : nodes[q].depth > nodes[j].depth

RECURSIVE Escaped(_)
Escaped(c) ==
    IF c = <<>> THEN <<>>
    ELSE (IF Head(c) \in {"\\", "[", "]"} THEN <<"\\", Head(c)>> ELSE <<Head(c)>>)
            \o Escaped(Tail(c))

(* What the Text step of log entry m appended, without its format marks.  *)
TextBody(m) ==
    LET format == nodes[log[m].at].node.format
        c3 == Peel(log[m].str, <<"~", "~">>, "strikethrough" \in format)
        c2 == Peel(c3, <<"*">>, "italic" \in format)
        c1 == Peel(c2, <<"*", "*">>, "bold" \in format)
    IN  Peel(c1, <<BQ>>, "code" \in format)

C12_TextEscapedExactlyInsideLink ==
    ValidPreOrder(nodes) =>
        \A m \in LogIndexes("text") :
            LET content == nodes[log[m].at].node.content
            IN  TextBody(m) = IF InLinkSubtree(log[m].at) THEN Escaped(content)
                              ELSE content

(* The half that the code keeps: Text in a Link's subtree is escaped.      *)
TextInsideLinkEscaped ==
    ValidPreOrder(nodes) =>
        \A m \in LogIndexes("text") :
            InLinkSubtree(log[m].at) =>
                TextBody(m) = Escaped(nodes[log[m].at].node.content)

(* Without a Link nested in a Link the claim holds in both directions.     *)
NoNestedLink == \A k \in 1..Len(nodes) : ~(IsKind(k, "Link") /\ InLinkSubtree(k))

TextEscapedExactlyInsideLinkUnlessNested ==
    NoNestedLink => C12_TextEscapedExactlyInsideLink

-----------------------------------------------------------------------------
(* C13 as stated: the counter of every List frame on the stack, ordered or *)
(* unordered, equals the number of markers emitted while it was the top.   *)
C13_CounterCountsEveryMarker ==
    \A p \in 1..Len(listStack) :
        listStack[p].count = Cardinality(MarkersOf(listStack[p].at))

(* C13 as the code has it: the counter of an "ol" frame equals the number  *)
(* of markers emitted while it was the top of the stack (0 when pushed,    *)
(* one more per marker, no other change); the counter of a frame of any    *)
(* other tag stays 0 however many markers are emitted.                     *)
C13_CounterCountsOrderedMarkersOnly ==
    \A p \in 1..Len(listStack) :
        listStack[p].count = IF listStack[p].tag = "ol"
                               THEN Cardinality(MarkersOf(listStack[p].at))
                               ELSE 0

(* An ordered frame that has counted a marker lies below an unordered      *)
(* frame for which a marker was emitted.                                   *)
C13_Witness ==
    \E p, q \in 1..Len(listStack) :
        /\ p < q
        /\ listStack[p].tag = "ol" /\ listStack[p].count >= 1
        /\ listStack[q].tag = "ul" /\ MarkersOf(listStack[q].at) # {}

-----------------------------------------------------------------------------
(* C14: the emission step of a ListItem whose only child is a List         *)
(* appends nothing, emits no marker (so changes no counter) and pushes no  *)
(* frame; the emission step of any other ListItem ensures a line break and *)
(* then emits exactly one marker.                                          *)

CloseKinds == {"linkClose", "fenceClose", "listPop", "quoteClose"}

(* The history of the emission step of position k, close-out excluded.     *)
EmittedAt(k) ==
    LET OfEmission(e) == e.at = k /\ e.what \notin CloseKinds
    IN  SelectSeq(log, OfEmission)

OneMarkerAfterLineBreak(k) ==
    LET e == EmittedAt(k)
    IN  /\ Len(e) = 2
        /\ e[1].what = "lineBreak"
        /\ e[2].what = "marker"
        /\ e[2].str # <<>>

C14_ListItemEmitsNothingOrOneMarker ==
    \A k \in 1..Len(nodes) :
        (Started(k) /\ IsKind(k, "ListItem")) =>
            IF hasSingleListChild(nodes, k) THEN EmittedAt(k) = <<>>
            ELSE OneMarkerAfterLineBreak(k)

(* The entry above k in the tree: the last earlier entry one level up.     *)
Parent(k) ==
    LET above == {j \in 1..(k - 1) : nodes[j].depth = nodes[k].depth - 1}
    IN  IF above = {} THEN 0 ELSE CHOOSE j \in above : \A q \in above : q <= j

ItemsInLists ==
    \A k \in 1..Len(nodes) :
        IsKind(k, "ListItem") => (Parent(k) # 0 /\ IsKind(Parent(k), "List"))

(* Where every ListItem is a child of an "ol" or "ul" List the claim holds. *)
ListItemInListEmitsNothingOrOneMarker ==
    (/\ ValidPreOrder(nodes)
     /\ ItemsInLists
     /\ \A k \in 1..Len(nodes) : IsKind(k, "List") => nodes[k].node.tag \in {"ol", "ul"})
        => C14_ListItemEmitsNothingOrOneMarker

-----------------------------------------------------------------------------
(* C15: every step that ensures a line break appends exactly one line feed *)
(* if the buffer is non-empty or a Paragraph was visited strictly earlier, *)
(* and nothing otherwise; every started entry that ensures a line break    *)
(* has performed one such step and no other entry has; and the flag is     *)
(* true exactly in the states after the visit of a Paragraph.              *)

LineBreaksAt(k) == {m \in LogIndexes("lineBreak") : log[m].at = k}

ParagraphBefore(k) == \E p \in 1..(k - 1) : IsKind(p, "Paragraph")

C15_LineBreakStepAppendsOneLineFeedWhenDue ==
    /\ \A m \in LogIndexes("lineBreak") :
           log[m].str = IF LenBefore(m) > 0 \/ ParagraphBefore(log[m].at)
                          THEN <<"\n">> ELSE <<>>
    /\ \A k \in 1..Len(nodes) :
           Started(k) =>
               Cardinality(LineBreaksAt(k)) = IF EnsuresLineBreak(k) THEN 1 ELSE 0
    /\ shouldAppendFirstLineBreak <=>
           \E p \in 1..Len(nodes) : Visited(p) /\ IsKind(p, "Paragraph")

(* A first Paragraph found the buffer empty and appended nothing; a later  *)
(* step found it still empty and appended the line feed the flag calls for. *)
C15_Witness ==
    \E m1, m2 \in LogIndexes("lineBreak") :
        /\ m1 < m2
        /\ IsKind(log[m1].at, "Paragraph")
        /\ log[m1].str = <<>>
        /\ LenBefore(m2) = 0
        /\ log[m2].str = <<"\n">>

-----------------------------------------------------------------------------
(* C16: within the close-out of one position the pops come in the order    *)
(* link, code, list, quote, after everything the position's emission step  *)
(* appended; so a Link's closing text precedes every closing fence and     *)
(* every quote line feed appended at the same position.                    *)

CloseRank(what) ==
    CASE what = "linkClose"  -> 1
      [] what = "fenceClose" -> 2
      [] what = "listPop"    -> 3
      [] what = "quoteClose" -> 4
      [] OTHER               -> 0

C16_ClosingOrderLinkCodeListQuote ==
    \A m1, m2 \in 1..Len(log) :
        (m1 < m2 /\ log[m1].at = log[m2].at /\ log[m2].what \in CloseKinds) =>
            CloseRank(log[m1].what) <= CloseRank(log[m2].what)

(* A Link, a Code and a Quote frame have closed at one position.           *)
C16_Witness ==
    \E m1, m2, m3 \in 1..Len(log) :
        /\ log[m1].at = log[m2].at /\ log[m2].at = log[m3].at
        /\ log[m1].what = "linkClose"
        /\ log[m2].what = "fenceClose"
        /\ log[m3].what = "quoteClose"

-----------------------------------------------------------------------------
(* C17: in the iteration of a Heading the flag keeps its value and no      *)
(* stack gains a frame; the emission step of an h1 or h2 appends the due   *)
(* line break and then "# " or "## ", and the emission step of any other   *)
(* level appends nothing, so that the buffer grows by the closing texts of *)
(* the close-out only.                                                     *)

RECURSIVE Joined(_)
Joined(entries) ==
    IF entries = <<>> THEN <<>> ELSE Head(entries).str \o Joined(Tail(entries))

IsEmission(e) == e.what \notin CloseKinds
IsClose(e) == e.what \in CloseKinds

(* after is what is left of before once frames have been popped off it.    *)
OnlyPopped(before, after) ==
    /\ Len(after) <= Len(before)
    /\ after = SubSeq(before, 1, Len(after))

HeadingIteration ==
    LET new     == SubSeq(log', Len(log) + 1, Len(log'))
        emitted == SelectSeq(new, IsEmission)
        closed  == SelectSeq(new, IsClose)
        tag     == nodes[i].node.tag
        due     == text # <<>> \/ shouldAppendFirstLineBreak
    IN  /\ shouldAppendFirstLineBreak' = shouldAppendFirstLineBreak
        /\ OnlyPopped(closingBracketStack, closingBracketStack')
        /\ OnlyPopped(listStack, listStack')
        /\ OnlyPopped(quoteStack, quoteStack')
        /\ OnlyPopped(codeStack, codeStack')
        /\ new = emitted \o closed
        /\ text' = text \o Joined(emitted) \o Joined(closed)
        /\ IF tag \in {"h1", "h2"}
             THEN /\ Len(emitted) = 2
                  /\ emitted[1].what = "lineBreak"
                  /\ emitted[1].str = IF due THEN <<"\n">> ELSE <<>>
                  /\ emitted[2].what = "heading"
                  /\ emitted[2].str = IF tag = "h1" THEN <<"#", " ">>
                                      ELSE <<"#", "#", " ">>
             ELSE emitted = <<>>

C17_OnlyH1AndH2HeadingsEmit ==
    [][Visiting("Heading") => HeadingIteration]_vars

(* An h3 Heading was visited with text in the buffer, after an h2 Heading  *)
(* that appended its marker.                                               *)
C17_Witness ==
    \E j, k \in 1..Len(nodes) :
        /\ j < k /\ Visited(k)
        /\ IsKind(j, "Heading") /\ nodes[j].node.tag = "h2"
        /\ IsKind(k, "Heading") /\ nodes[k].node.tag = "h3"
        /\ \E m \in LogIndexes("heading") : log[m].at = j

-----------------------------------------------------------------------------
(* C18: whatever the depths of the sequence, in every state between two    *)
(* iterations the depths of the frames of the code, the list and the quote *)
(* stack strictly increase from bottom to top and are all smaller than the *)
(* depth of the entry visited next; past the last entry the three stacks   *)
(* are empty.                                                              *)

IncreasingBelowNext(stack) ==
    /\ \A p \in 1..(Len(stack) - 1) : stack[p].depth < stack[p + 1].depth
    /\ IF i <= Len(nodes)
         THEN \A p \in 1..Len(stack) : stack[p].depth < nodes[i].depth
         ELSE stack = <<>>

C18_UnwoundStacksIncreaseBelowNextDepth ==
    /\ IncreasingBelowNext(codeStack)
    /\ IncreasingBelowNext(listStack)
    /\ IncreasingBelowNext(quoteStack)

(* In a sequence that is no pre-order listing, a close-out has popped a    *)
(* frame off one of the three stacks and left a frame on one of them.      *)
C18_Witness ==
    /\ ~ValidPreOrder(nodes)
    /\ pc = "loop" /\ i <= Len(nodes)
    /\ \E stack \in {codeStack, listStack, quoteStack} : Len(stack) >= 1
    /\ \E m \in 1..Len(log) : log[m].what \in {"fenceClose", "listPop", "quoteClose"}

-----------------------------------------------------------------------------
(* C19: in a valid pre-order sequence whose ListItems are all children of  *)
(* Lists, when a ListItem is about to be visited the list stack is not     *)
(* empty and its top is the frame pushed for the ListItem's parent, with   *)
(* the parent's tag and depth; and every marker emitted was emitted for    *)
(* the parent List of its ListItem.                                        *)

C19_ListItemSeesParentListFrame ==
    (ValidPreOrder(nodes) /\ ItemsInLists) =>
        /\ (pc = "loop" /\ i <= Len(nodes) /\ IsKind(i, "ListItem")) =>
               /\ listStack # <<>>
               /\ Top(listStack).at = Parent(i)
               /\ Top(listStack).tag = nodes[Parent(i)].node.tag
               /\ Top(listStack).depth = nodes[Parent(i)].depth
        /\ \A m \in LogIndexes("marker") : log[m].frame = Parent(log[m].at)

(* A ListItem is about to be visited inside a List that lies in another    *)
(* List, right after two Lists nested in its parent have ended together.   *)
C19_Witness ==
    /\ ValidPreOrder(nodes) /\ ItemsInLists
    /\ pc = "loop" /\ i <= Len(nodes) /\ IsKind(i, "ListItem")
    /\ Len(listStack) >= 2
    /\ Cardinality({m \in LogIndexes("listPop") : log[m].at = i - 1}) >= 2

====
